---- MODULE Spec2Model ----
(***************************************************************************)
(* pyinterpret.model.model.Model: the wrapper around a prediction function *)
(* and its output-signature inference (check_output_signature), the        *)
(* transformer selection (return_transformer_func) and the one-hot         *)
(* transform (predict_function_transformer).                               *)
(*                                                                         *)
(* Python values are tagged pairs <<type, value>>; numpy arrays are        *)
(* records [shape, dtype, flat] with the data in row-major order.          *)
(***************************************************************************)
EXTENDS Integers, Sequences, FiniteSets, TLC

VARIABLES
    examples,         \* self.examples
    model_type,       \* self.model_type
    output_var_type,  \* self.output_var_type
    output_shape,     \* self.output_shape
    n_classes,        \* self.n_classes
    input_shape,      \* self.input_shape
    probability,      \* self.probability
    formatter,        \* self.formatter
    call,             \* the last method call: its arguments and how it ended
    labels,           \* argument of a direct predict_function_transformer call
    onehot,           \* what that call returned
    selected          \* what a direct return_transformer_func call returned

attrs == <<model_type, output_var_type, output_shape, n_classes, input_shape,
           probability, formatter>>
vars == <<examples, model_type, output_var_type, output_shape, n_classes,
          input_shape, probability, formatter, call, labels, onehot, selected>>

----------------------------------------------------------------------------
(* Bounds *)

MaxRows == 2      \* rows of an examples batch (and of predict's output)
MaxK == 2         \* columns of a 2-D predict output
MaxLabel == 2     \* distinct values predict may emit
MaxLen == 4       \* length of a label sequence handed to the one-hot transform
NLabels == 3      \* distinct labels in such a sequence

----------------------------------------------------------------------------
(* Python values *)

PyStr(s) == <<"str", s>>
PyBool(b) == <<"bool", b>>
PyInt(n) == <<"int", n>>
PyTuple(t) == <<"tuple", t>>

\* bool(v): the truth value Python gives v
truth(v) ==
    CASE v[1] = "bool" -> v[2]
      [] v[1] = "str" -> v[2] # ""
      [] v[1] = "int" -> v[2] # 0
      [] v[1] = "tuple" -> v[2] # <<>>
      [] OTHER -> TRUE

\* util.static_types.StaticTypes
unknown == PyStr("unknown")
not_applicable == PyStr("not applicable")
classifier == PyStr("classifier")
regressor == PyStr("regressor")
string_type == PyStr("string")
int_type == PyStr("int")
float_type == PyStr("float")

\* util.static_types.return_data_type
return_data_type(thing) ==
    CASE thing[1] = "str" -> string_type
      [] thing[1] = "int" -> int_type
      [] thing[1] = "float" -> float_type
      [] OTHER -> unknown

\* the two callables self.formatter can hold
Identity == "lambda x: x"
OneHot == "predict_function_transformer"

----------------------------------------------------------------------------
(* numpy arrays *)

RECURSIVE Prod(_)
Prod(s) == IF s = <<>> THEN 1 ELSE Head(s) * Prod(Tail(s))

DTypes == {"str", "int", "float", "object"}

\* the Python type of an element taken out of an array of that dtype
ElemType(dtype) == IF dtype = "object" THEN "NoneType" ELSE dtype

Arrays(shape, dtype, vals) ==
    { [shape |-> shape, dtype |-> dtype, flat |-> f] : f \in [1..Prod(shape) -> vals] }

\* np.array(x)
PyNone == [none |-> TRUE]
np_array(x) ==
    IF x = PyNone THEN [shape |-> <<>>, dtype |-> "object", flat |-> <<0>>] ELSE x

\* isinstance(x, np.ndarray)
isinstance_ndarray(x) == DOMAIN x = {"shape", "dtype", "flat"}

\* a.any()
any(a) == \E i \in 1..Len(a.flat) : a.flat[i] # 0

\* a[0] of a 1-D array and a[0][0] of a 2-D array
first(a) == <<ElemType(a.dtype), a.flat[1]>>

np_unique_mut(a) == a.flat
\* np.unique(a), as the sequence of distinct values in ascending order
RECURSIVE SortedSeq(_)
SortedSeq(S) ==
    IF S = {} THEN <<>>
    ELSE LET m == CHOOSE x \in S : \A y \in S : x <= y
         IN <<m>> \o SortedSeq(S \ {m})

np_unique(a) == SortedSeq({a.flat[i] : i \in 1..Len(a.flat)})

\* np.squeeze(a)
np_squeeze(a) == [a EXCEPT !.shape = SelectSeq(a.shape, LAMBDA d : d # 1)]

----------------------------------------------------------------------------
(* sklearn.preprocessing *)

ValueError == [raised |-> "ValueError"]

\* sklearn.utils.column_or_1d, which LabelEncoder applies to its input
column_or_1d(y) ==
    IF Len(y.shape) = 1 THEN y
    ELSE IF Len(y.shape) = 2 /\ y.shape[2] = 1 THEN [y EXCEPT !.shape = <<y.shape[1]>>]
    ELSE ValueError

IndexOf(seq, v) == CHOOSE i \in 1..Len(seq) : seq[i] = v

\* LabelEncoder().fit_transform(y) of a 1-D y: the 0-based position of each
\* label among the sorted distinct labels
LabelEncoder_fit_transform(y) ==
    LET classes == np_unique(y)
    IN  [shape |-> y.shape, dtype |-> "int",
         flat |-> [i \in 1..Len(y.flat) |-> IndexOf(classes, y.flat[i]) - 1]]

\* a[:, np.newaxis] of a 1-D array
newaxis(a) == [a EXCEPT !.shape = <<a.shape[1], 1>>]

\* OneHotEncoder().fit_transform(X).todense() of an (n, 1) integer column:
\* one column per value that occurs, in ascending order
OneHotEncoder_fit_transform(X) ==
    LET n == X.shape[1]
        active == np_unique(X)
        d == Len(active)
    IN  IF n = 0 THEN ValueError
        ELSE [shape |-> <<n, d>>, dtype |-> "float",
              flat |-> [j \in 1..(n * d) |->
                          IF active[((j - 1) % d) + 1] = X.flat[((j - 1) \div d) + 1]
                          THEN 1 ELSE 0]]

\* Model.predict_function_transformer
predict_function_transformer(output) ==
    LET y == column_or_1d(output)
    IN  IF y = ValueError THEN ValueError
        ELSE LET _labels == newaxis(LabelEncoder_fit_transform(y))
                 dense == OneHotEncoder_fit_transform(_labels)
             IN  IF dense = ValueError THEN ValueError ELSE np_squeeze(dense)

----------------------------------------------------------------------------
(* Model *)

\* Model.__init__
NewModel ==
    [examples |-> np_array(PyNone),
     model_type |-> unknown,
     output_var_type |-> unknown,
     output_shape |-> unknown,
     n_classes |-> unknown,
     input_shape |-> unknown,
     probability |-> unknown,
     formatter |-> Identity]

return_transformer_func_mut(self) ==
    IF self.model_type = classifier /\ truth(self.probability)
    THEN OneHot ELSE Identity
\* Model.return_transformer_func
return_transformer_func(self) ==
    IF self.model_type = classifier /\ ~truth(self.probability)
    THEN OneHot ELSE Identity

\* what one invocation of the caller's predict does
Raises == [raises |-> TRUE]
Returns == [returns |-> TRUE]
NotInvoked == [invoked |-> FALSE]

report_predicts_mut(self, p2) == NotInvoked
\* Model.model_report: whether it invokes predict, and how that ends
report_predicts(self, p2) ==
    IF isinstance_ndarray(self.examples) THEN p2 ELSE NotInvoked

Ended(self, outcome, npredict, nwarn, ndebug) ==
    [self |-> self, outcome |-> outcome, npredict |-> npredict,
     nwarn |-> nwarn, ndebug |-> ndebug]

cache_formatter_mut(self) == self
\* check_output_signature, line 127
cache_formatter(self) ==
    [self EXCEPT !.formatter = return_transformer_func(self)]

\* check_output_signature, lines 127-131
finish(self, p2, nwarn) ==
    LET s == cache_formatter(self)
        r == report_predicts(s, p2)
    IN  IF r = Raises THEN Ended(s, "PredictError", 2, nwarn, 0)
        ELSE IF r = Returns THEN Ended(s, "return", 2, nwarn, 8)
        ELSE Ended(s, "return", 1, nwarn, 6)

\* check_output_signature, lines 92-117
infer_1d(self, outputs, p2) ==
    IF Len(outputs.flat) = 0 THEN Ended(self, "IndexError", 1, 0, 0)
    ELSE
    LET s == [self EXCEPT !.output_var_type = return_data_type(first(outputs))]
    IN  IF s.output_var_type \in {string_type, int_type}
        THEN finish([s EXCEPT !.model_type = classifier,
                              !.probability = PyBool(FALSE),
                              !.n_classes = PyInt(Len(np_unique(outputs)))], p2, 0)
        ELSE IF s.output_var_type = float_type
        THEN finish([s EXCEPT !.model_type = regressor,
                              !.n_classes = PyInt(1),
                              !.probability = not_applicable], p2, 1)
        ELSE finish(s, p2, 0)

\* check_output_signature, lines 118-123
infer_2d(self, outputs, p2) ==
    LET s == [self EXCEPT !.model_type = classifier,
                          !.n_classes = PyInt(outputs.shape[2])]
    IN  IF Len(outputs.flat) = 0 THEN Ended(s, "IndexError", 1, 0, 0)
        ELSE
        LET t == [s EXCEPT !.output_var_type = return_data_type(first(outputs))]
        IN  finish([t EXCEPT !.probability = PyBool(t.output_var_type = float_type)],
                   p2, 0)

\* Model.check_output_signature
check_output_signature(self, ex, p1, p2) ==
    IF ~any(ex) THEN Ended(self, "ModelError", 0, 0, 0)
    ELSE IF p1 = Raises THEN Ended(self, "PredictError", 1, 0, 0)
    ELSE
    LET outputs == p1
        s == [self EXCEPT !.input_shape = PyTuple(ex.shape),
                          !.output_shape = PyTuple(outputs.shape)]
    IN  IF Len(outputs.shape) = 1 THEN infer_1d(s, outputs, p2)
        ELSE IF Len(outputs.shape) = 2 THEN infer_2d(s, outputs, p2)
        ELSE Ended(s, "ValueError", 1, 0, 0)

----------------------------------------------------------------------------
(* The inputs a caller can supply *)

\* batches of examples: n rows of one feature, every entry 0 or every entry 1,
\* or no rows at all
ExampleBatches ==
    UNION { Arrays(IF n = 0 THEN <<0>> ELSE <<n, 1>>, "int", {v}) :
              n \in 0..MaxRows, v \in {0, 1} }

\* the batches set_examples is called with
BoundBatches == Arrays(<<1, 1>>, "int", {0}) \cup Arrays(<<1, 1>>, "int", {1})

Rows(ex) == ex.shape[1]

\* arrays predict can return for a batch: one row per input, 1-D, 2-D or
\* 3-D, or no rows at all
Outputs(ex) ==
    Arrays(<<0>>, "float", {0})
    \cup
    UNION { Arrays(<<Rows(ex)>>, d, 1..MaxLabel) : d \in DTypes }
    \cup
    UNION { Arrays(<<Rows(ex), k>>, d, {0}) : k \in 0..MaxK, d \in DTypes }
    \cup Arrays(<<Rows(ex), 1, 1>>, "float", {0})

NoCall == [op |-> "__init__", outcome |-> "return", examples |-> np_array(PyNone),
           outputs |-> np_array(PyNone), npredict |-> 0, nwarn |-> 0, ndebug |-> 0]

Self ==
    [examples |-> examples, model_type |-> model_type,
     output_var_type |-> output_var_type, output_shape |-> output_shape,
     n_classes |-> n_classes, input_shape |-> input_shape,
     probability |-> probability, formatter |-> formatter]

Store(s) ==
    /\ examples' = s.examples
    /\ model_type' = s.model_type
    /\ output_var_type' = s.output_var_type
    /\ output_shape' = s.output_shape
    /\ n_classes' = s.n_classes
    /\ input_shape' = s.input_shape
    /\ probability' = s.probability
    /\ formatter' = s.formatter

NotCalled == [called |-> FALSE]
NoLabels == [shape |-> <<0>>, dtype |-> "str", flat |-> <<>>]

\* self.formatter(x)
Apply(f, x) == IF f = OneHot THEN predict_function_transformer(x) ELSE x
NotSelected == "not called"

Init ==
    /\ examples = NewModel.examples
    /\ model_type = NewModel.model_type
    /\ output_var_type = NewModel.output_var_type
    /\ output_shape = NewModel.output_shape
    /\ n_classes = NewModel.n_classes
    /\ input_shape = NewModel.input_shape
    /\ probability = NewModel.probability
    /\ formatter = NewModel.formatter
    /\ call = NoCall
    /\ labels = NoLabels
    /\ onehot = NotCalled
    /\ selected = NotSelected

\* Model.set_examples
SetExamples(ex) ==
    /\ examples' = np_array(ex)
    /\ call' = [NoCall EXCEPT !.op = "set_examples", !.examples = ex]
    /\ UNCHANGED <<attrs, labels, onehot, selected>>

CheckOutputSignature(ex, p1, p2) ==
    LET r == check_output_signature(Self, ex, p1, p2)
    IN  /\ Store(r.self)
        /\ call' = [op |-> "check_output_signature", outcome |-> r.outcome,
                    examples |-> ex,
                    outputs |-> IF r.npredict = 0 \/ p1 = Raises
                                THEN np_array(PyNone) ELSE p1,
                    npredict |-> r.npredict, nwarn |-> r.nwarn, ndebug |-> r.ndebug]
        /\ UNCHANGED <<labels, onehot, selected>>

Next ==
    \/ \E ex \in BoundBatches : SetExamples(ex)
    \/ \E ex \in ExampleBatches : \E p1 \in {Raises} \cup Outputs(ex) :
         \E p2 \in {Raises, Returns} : CheckOutputSignature(ex, p1, p2)

Spec == Init /\ [][Next]_vars

----------------------------------------------------------------------------
(* The two pure functions, called directly on drawn inputs *)

ModelTypes == {unknown, classifier, regressor}
Probabilities == {unknown, PyBool(TRUE), PyBool(FALSE), not_applicable}

\* non-empty 1-D arrays of labels
LabelSeqs == UNION { Arrays(<<n>>, "str", 1..NLabels) : n \in 1..MaxLen }

InitPure ==
    /\ examples = NewModel.examples
    /\ model_type \in ModelTypes
    /\ output_var_type = NewModel.output_var_type
    /\ output_shape = NewModel.output_shape
    /\ n_classes = NewModel.n_classes
    /\ input_shape = NewModel.input_shape
    /\ probability \in Probabilities
    /\ formatter = NewModel.formatter
    /\ call = NoCall
    /\ labels \in LabelSeqs
    /\ onehot = NotCalled
    /\ selected = NotSelected

CallTransformer ==
    /\ onehot = NotCalled
    /\ onehot' = predict_function_transformer(labels)
    /\ UNCHANGED <<examples, attrs, call, labels, selected>>

CallReturnTransformerFunc ==
    /\ selected = NotSelected
    /\ selected' = return_transformer_func(Self)
    /\ UNCHANGED <<examples, attrs, call, labels, onehot>>

NextPure == CallTransformer \/ CallReturnTransformerFunc

SpecPure == InitPure /\ [][NextPure]_vars

----------------------------------------------------------------------------
(* Properties *)

IsCheck(c) == c.op = "check_output_signature"
Rank(c) == Len(c.outputs.shape)
FirstType(c) == ElemType(c.outputs.dtype)
Distinct(a) == Cardinality({a.flat[i] : i \in 1..Len(a.flat)})

\* C1: when check_output_signature fails with ModelError (empty batch) or with
\* the unsupported-shape error (output rank other than 1 or 2), every one of
\* model_type, output_var_type, input_shape, output_shape, n_classes,
\* probability and formatter has the value it had before the call.
C1_EarlyFailureChangesNothing ==
    [][(IsCheck(call') /\ call'.outcome \in {"ModelError", "ValueError"})
         => attrs' = attrs]_vars

\* C2: a successful check_output_signature follows the decision table:
\* 1-D output starting with a string or integer gives classifier,
\* probability False, n_classes = number of distinct outputs; 1-D output
\* starting with a float gives regressor, n_classes 1, probability
\* not-applicable and one warning; 2-D (N, K) output starting with a float
\* gives classifier, n_classes K, probability True.
C2_DecisionTable ==
    (IsCheck(call) /\ call.outcome = "return") =>
        /\ (Rank(call) = 1 /\ FirstType(call) \in {"str", "int"}) =>
              /\ model_type = classifier
              /\ probability = PyBool(FALSE)
              /\ n_classes = PyInt(Distinct(call.outputs))
        /\ (Rank(call) = 1 /\ FirstType(call) = "float") =>
              /\ model_type = regressor
              /\ n_classes = PyInt(1)
              /\ probability = not_applicable
              /\ call.nwarn = 1
        /\ (Rank(call) = 2 /\ FirstType(call) = "float") =>
              /\ model_type = classifier
              /\ n_classes = PyInt(call.outputs.shape[2])
              /\ probability = PyBool(TRUE)

\* a call whose predict returned two distinct integers for two rows returned
\* and inferred a classifier of two classes
C2_Witness ==
    /\ IsCheck(call) /\ call.outcome = "return"
    /\ call.outputs = [shape |-> <<2>>, dtype |-> "int", flat |-> <<1, 2>>]
    /\ model_type = classifier /\ probability = PyBool(FALSE) /\ n_classes = PyInt(2)

\* C3: for a 2-D (N, K) output of integers, check_output_signature sets
\* model_type = classifier, n_classes = K, probability = False, and the
\* cached formatter is the identity: formatter(outputs) = outputs.
C3_IntMatrixKeepsIdentity ==
    (IsCheck(call) /\ call.outcome = "return" /\ Rank(call) = 2
       /\ FirstType(call) = "int") =>
        /\ model_type = classifier
        /\ n_classes = PyInt(call.outputs.shape[2])
        /\ probability = PyBool(FALSE)
        /\ formatter = Identity
        /\ Apply(formatter, call.outputs) = call.outputs

\* the number of 1 entries of row i of a 2-D array, and the entry (i, j)
Entry(a, i, j) == a.flat[(i - 1) * a.shape[2] + j]
OnesInRow(a, i) == Cardinality({j \in 1..a.shape[2] : Entry(a, i, j) = 1})

\* C4: for every non-empty label sequence L with d distinct values,
\* predict_function_transformer(L) is a 2-D 0/1 matrix of len(L) rows and d
\* columns whose row i has exactly one 1, in the column whose index is the
\* rank of L[i] among the sorted distinct values of L.
C4_OneHotMatrix ==
    onehot # NotCalled =>
        /\ onehot # ValueError
        /\ onehot.shape = <<Len(labels.flat), Distinct(labels)>>
        /\ \A j \in 1..Len(onehot.flat) : onehot.flat[j] \in {0, 1}
        /\ \A i \in 1..Len(labels.flat) :
              /\ OnesInRow(onehot, i) = 1
              /\ Entry(onehot, i,
                       Cardinality({v \in 1..NLabels :
                                      /\ v < labels.flat[i]
                                      /\ \E k \in 1..Len(labels.flat) : labels.flat[k] = v})
                       + 1) = 1

\* C5: return_transformer_func returns the one-hot transform exactly when
\* model_type = classifier and probability = False, the identity for every
\* other pair of model_type and probability, and changes no attribute.
C5_Selection ==
    /\ [](selected # NotSelected =>
            /\ selected \in {OneHot, Identity}
            /\ selected = OneHot <=>
                  (model_type = classifier /\ probability = PyBool(FALSE)))
    /\ [][selected' # selected => UNCHANGED <<examples, attrs>>]_vars

\* the selection was made while model_type and probability were both unknown
C5_Witness ==
    /\ selected = Identity
    /\ model_type = unknown /\ probability = unknown

\* C6: check_output_signature raises ModelError exactly when the examples
\* batch is empty; no non-empty batch produces ModelError.
C6_ModelErrorIffEmpty ==
    IsCheck(call) => (call.outcome = "ModelError" <=> Len(call.examples.flat) = 0)

\* C7: if predict raises during check_output_signature, the exception
\* propagates and none of the attributes differs from its value before the
\* call.
C7_PredictFailureChangesNothing ==
    [][(IsCheck(call') /\ call'.outcome = "PredictError") => attrs' = attrs]_vars

\* C8: after a check_output_signature call whose output is 1-D with a first
\* element that is neither string, integer nor float, model_type, n_classes
\* and probability are unknown and formatter is the identity, whatever
\* calls came before.
C8_UntypedOutputLeavesUnknown ==
    (IsCheck(call) /\ call.outcome = "return" /\ Rank(call) = 1
       /\ FirstType(call) \notin {"str", "int", "float"}) =>
        /\ model_type = unknown
        /\ n_classes = unknown
        /\ probability = unknown
        /\ formatter = Identity

C10_FormatterAgrees ==
    /\ formatter \in {OneHot, Identity}
    /\ formatter = OneHot <=> (model_type = classifier /\ probability = PyBool(FALSE))

\* a call failed on a 3-D output after an earlier call had cached the one-hot
\* transform
C10_Witness ==
    /\ IsCheck(call) /\ call.outcome = "ValueError"
    /\ formatter = OneHot /\ model_type = classifier

====
